---- MODULE Spec2Model ----
(***************************************************************************)
(* Universal Thread Navigator (src/content.js): a browser content script.  *)
(* The model follows the script function by function.  The JavaScript run  *)
(* is single threaded: every function call, timer callback and event       *)
(* handler runs to completion, so each of them is one atomic action.       *)
(***************************************************************************)
EXTENDS Integers, Sequences, FiniteSets, TLC

VARIABLES
    pc,          \* "load": the script has not reached its bootstrap yet; "run" after it
    host,        \* window.location.hostname, a sequence of fragments
    href,        \* window.location.href
    lastUrl,     \* let lastUrl (line 328)
    retryCount,  \* let retryCount (line 11)
    dclPending,  \* a DOMContentLoaded listener for initExtension is registered and not yet run
    initTimers,  \* pending setTimeout(initExtension, 1000) timers, oldest first
    triggers,    \* number of elements with id 'thread-navigator-btn' in the document
    dom,         \* the host page's conversation subtree: a sequence of nodes with kids
    failedChecks,\* history: failed readiness checks since load / the last observed address change
    scheduled,   \* history: retry timers scheduled since load / the last observed address change
    lastExit,    \* history: where the latest run of initExtension returned
    observed,    \* history: address changes observed by the watcher
    navCount,    \* history: address changes made by the host page
    listResult,  \* the latest call of findUserMessages on the current DOM: its return value
    respResult,  \* the latest call of findAIResponse on the current DOM: argument and return value
    platformResult, \* the latest call of getCurrentPlatform: whether it was made and its return value
    modals,      \* the elements with id 'thread-prompts-modal' in the document, in document order
    focusTimers, \* pending timers of line 115 (focus the search field)
    focused,     \* the search field of the first modal has the focus
    notes,       \* the notifications in the document, oldest first (each leaves after 2500 ms)
    writes,      \* clipboard writes that have not settled yet
    clipboard,   \* the content of the system clipboard
    style,       \* style.backgroundColor and style.transition of every node of the DOM
    hlTimers,    \* pending timers of highlightElement, with the time left on each
    scrollTarget,\* the node scrolled into view last
    event,       \* history: the UI event the latest step handled, NoEvent for other steps
    shown,       \* history: notifications shown so far, per message
    settled,     \* history: clipboard writes that succeeded and that failed
    misses,      \* history: copy actions that found no response
    uncaught,    \* history: failures that left a handler or a promise uncaught
    jumps        \* history: jump actions so far

vars == <<pc, host, href, lastUrl, retryCount, dclPending, initTimers, triggers, dom,
          failedChecks, scheduled, lastExit, observed, navCount, listResult, respResult,
          platformResult, modals, focusTimers, focused, notes, writes, clipboard, style, hlTimers,
          scrollTarget, event, shown, settled, misses, uncaught, jumps>>

-----------------------------------------------------------------------------
(* Bounds of the model *)

MaxNav == 2          \* address changes the host page makes in one behaviour
MaxPollNodes == 1    \* nodes the host page renders while the Poller is observed
MaxSiblings == 12    \* top-level nodes of a conversation findAIResponse is applied to
MaxMarked == 2       \* top-level nodes of such a conversation that are not plain elements
MaxMsgNodes == 2     \* top-level nodes of a conversation findUserMessages is applied to
MaxHostFragments == 3 \* pieces of a hostname getCurrentPlatform is applied to
MaxFocusTimers == 1  \* pending focus timers (trigger clicks within 100 ms)
MaxItemActions == 2  \* copy and jump actions in one behaviour

(* Program constants *)

retryLimit == 20     \* CONFIG.retryLimit
LookAhead == 10      \* siblings findAIResponse looks at

CHATGPT == "ChatGPT"
GEMINI == "Gemini"
UNKNOWN == "Unknown"

-----------------------------------------------------------------------------
(* Text: a string is a sequence of characters; " " is white space. *)

Chars == {" ", "a"}

RECURSIVE TrimLeft(_)
TrimLeft(s) == IF s # <<>> /\ Head(s) = " " THEN TrimLeft(Tail(s)) ELSE s

RECURSIVE TrimRight(_)
TrimRight(s) ==
    IF s # <<>> /\ s[Len(s)] = " " THEN TrimRight(SubSeq(s, 1, Len(s) - 1)) ELSE s

\* String.prototype.trim
Trim(s) == TrimRight(TrimLeft(s))

-----------------------------------------------------------------------------
(* The DOM.  A node carries the attributes the script's selectors read.    *)

NoAttr == "none"

Node(id, tag, testid, cls, role, text) ==
    [id |-> id, tag |-> tag, testid |-> testid, cls |-> cls, role |-> role,
     text |-> text, kids |-> <<>>]

\* document order (preorder) of a forest
RECURSIVE Flatten(_)
Flatten(forest) ==
    IF forest = <<>> THEN <<>>
    ELSE <<Head(forest)>> \o Flatten(Head(forest).kids) \o Flatten(Tail(forest))

\* Element.matches for the selectors the script uses
Matches(sel, n) ==
    CASE sel = "user-query" -> n.tag = "USER-QUERY"
      [] sel = "[data-testid=user-query]" -> n.testid = "user-query"
      [] sel = ".user-query" -> n.cls = "user-query"
      [] sel = "[data-message-author-role=user]" -> n.role = "user"
      [] sel = "[data-message-author-role=assistant]" -> n.role = "assistant"
      [] sel = "[data-testid^=conversation-turn]" -> n.testid = "conversation-turn"
      [] OTHER -> FALSE

\* document.querySelectorAll with a selector list: matches in document order
QuerySelectorAll(forest, sels) ==
    SelectSeq(Flatten(forest), LAMBDA n : \E s \in sels : Matches(s, n))

\* document.querySelector: the first match or null
Null == [id |-> 0]

NoPlatformCall == [called |-> FALSE, out |-> "none"]

NoEvent == [kind |-> "none", msg |-> 0, open |-> 0, value |-> <<>>]

QuerySelector(forest, sels) ==
    LET all == QuerySelectorAll(forest, sels)
    IN  IF all = <<>> THEN Null ELSE Head(all)

\* the ids of the nodes of a forest
Ids(forest) == LET flat == Flatten(forest) IN {flat[i].id : i \in DOMAIN flat}

Contains(forest, id) == id \in Ids(forest)

\* the node with the given id, or null
NodeById(forest, id) ==
    LET hits == SelectSeq(Flatten(forest), LAMBDA n : n.id = id)
    IN  IF hits = <<>> THEN Null ELSE Head(hits)

\* the siblings that follow node id, nearest first
RECURSIVE FollowingSiblings(_, _)
FollowingSiblings(forest, id) ==
    IF \E i \in DOMAIN forest : forest[i].id = id
    THEN LET i == CHOOSE j \in DOMAIN forest : forest[j].id = id
         IN  SubSeq(forest, i + 1, Len(forest))
    ELSE IF \E i \in DOMAIN forest : Contains(forest[i].kids, id)
    THEN LET i == CHOOSE j \in DOMAIN forest : Contains(forest[j].kids, id)
         IN  FollowingSiblings(forest[i].kids, id)
    ELSE <<>>

\* Element.nextElementSibling
nextElementSibling(forest, id) ==
    LET after == FollowingSiblings(forest, id)
    IN  IF after = <<>> THEN Null ELSE Head(after)

\* node id, then its parent, and so on up to the root
RECURSIVE AncestorsOrSelf(_, _)
AncestorsOrSelf(forest, id) ==
    IF \E i \in DOMAIN forest : forest[i].id = id
    THEN LET i == CHOOSE j \in DOMAIN forest : forest[j].id = id
         IN  <<forest[i]>>
    ELSE IF \E i \in DOMAIN forest : Contains(forest[i].kids, id)
    THEN LET i == CHOOSE j \in DOMAIN forest : Contains(forest[j].kids, id)
         IN  AncestorsOrSelf(forest[i].kids, id) \o <<forest[i]>>
    ELSE <<>>

\* Element.closest: the nearest of the node and its ancestors that matches
closest(forest, id, sel) ==
    LET hits == SelectSeq(AncestorsOrSelf(forest, id), LAMBDA n : Matches(sel, n))
    IN  IF hits = <<>> THEN Null ELSE Head(hits)

-----------------------------------------------------------------------------
(* Platform detection *)

\* String.prototype.includes on a hostname made of fragments
Includes(h, marker) == \E i \in DOMAIN h : h[i] = marker

\* getCurrentPlatform with the Gemini test first
getCurrentPlatform_GeminiFirst(h) ==
    IF Includes(h, "gemini.google.com") THEN GEMINI
    ELSE IF Includes(h, "chatgpt.com") \/ Includes(h, "openai.com") THEN CHATGPT
    ELSE UNKNOWN

getCurrentPlatform(h) ==
    IF Includes(h, "chatgpt.com") \/ Includes(h, "openai.com") THEN CHATGPT
    ELSE IF Includes(h, "gemini.google.com") THEN GEMINI
    ELSE UNKNOWN

-----------------------------------------------------------------------------
(* Initialization *)

\* a readiness check that never finds the page ready
checkPageReady_Never(platform, forest) == FALSE

checkPageReady(platform, forest) ==
    IF platform = GEMINI
    THEN QuerySelector(forest, {"user-query"}) # Null
         \/ QuerySelector(forest, {"[data-testid=user-query]"}) # Null
    ELSE IF platform = CHATGPT
    THEN QuerySelector(forest, {"[data-message-author-role=user]"}) # Null
    ELSE FALSE

\* document.getElementById('thread-navigator-btn')
TriggerExists == triggers > 0

\* createFloatingButton: one more trigger element is appended to the body
createFloatingButton == triggers' = triggers + 1

\* setTimeout(initExtension, ...) from a failed readiness check
Timer(src) == [src |-> src, stale |-> FALSE]

\* initExtension without the guard of line 36
initExtension_NoGuard(timers) ==
    LET platform == getCurrentPlatform(host)
    IN  IF platform = UNKNOWN
        THEN /\ initTimers' = timers
             /\ lastExit' = "unsupported"
             /\ UNCHANGED <<retryCount, triggers, failedChecks, scheduled>>
        ELSE IF checkPageReady(platform, dom)
        THEN /\ createFloatingButton
             /\ initTimers' = timers
             /\ lastExit' = "created"
             /\ UNCHANGED <<retryCount, failedChecks, scheduled>>
        ELSE /\ failedChecks' = failedChecks + 1
             /\ UNCHANGED triggers
             /\ IF retryCount < retryLimit
                THEN /\ retryCount' = retryCount + 1
                     /\ initTimers' = Append(timers, Timer("retry"))
                     /\ scheduled' = scheduled + 1
                     /\ lastExit' = "retry"
                ELSE /\ initTimers' = timers
                     /\ lastExit' = "gave up"
                     /\ UNCHANGED <<retryCount, scheduled>>

\* initExtension with the comparison of line 45 off by one
initExtension_OffByOne(timers) ==
    LET platform == getCurrentPlatform(host)
    IN  IF platform = UNKNOWN
        THEN /\ initTimers' = timers
             /\ lastExit' = "unsupported"
             /\ UNCHANGED <<retryCount, triggers, failedChecks, scheduled>>
        ELSE IF TriggerExists
        THEN /\ initTimers' = timers
             /\ lastExit' = "exists"
             /\ UNCHANGED <<retryCount, triggers, failedChecks, scheduled>>
        ELSE IF checkPageReady(platform, dom)
        THEN /\ createFloatingButton
             /\ initTimers' = timers
             /\ lastExit' = "created"
             /\ UNCHANGED <<retryCount, failedChecks, scheduled>>
        ELSE /\ failedChecks' = failedChecks + 1
             /\ UNCHANGED triggers
             /\ IF retryCount <= retryLimit
                THEN /\ retryCount' = retryCount + 1
                     /\ initTimers' = Append(timers, Timer("retry"))
                     /\ scheduled' = scheduled + 1
                     /\ lastExit' = "retry"
                ELSE /\ initTimers' = timers
                     /\ lastExit' = "gave up"
                     /\ UNCHANGED <<retryCount, scheduled>>

\* initExtension without the platform test of line 33
initExtension_NoPlatformCheck(timers) ==
    LET platform == getCurrentPlatform(host)
    IN  IF TriggerExists
        THEN /\ initTimers' = timers
             /\ lastExit' = "exists"
             /\ UNCHANGED <<retryCount, triggers, failedChecks, scheduled>>
        ELSE IF checkPageReady(platform, dom)
        THEN /\ createFloatingButton
             /\ initTimers' = timers
             /\ lastExit' = "created"
             /\ UNCHANGED <<retryCount, failedChecks, scheduled>>
        ELSE /\ failedChecks' = failedChecks + 1
             /\ UNCHANGED triggers
             /\ IF retryCount < retryLimit
                THEN /\ retryCount' = retryCount + 1
                     /\ initTimers' = Append(timers, Timer("retry"))
                     /\ scheduled' = scheduled + 1
                     /\ lastExit' = "retry"
                ELSE /\ initTimers' = timers
                     /\ lastExit' = "gave up"
                     /\ UNCHANGED <<retryCount, scheduled>>

\* initExtension without the increment of line 46
initExtension_NoCount(timers) ==
    LET platform == getCurrentPlatform(host)
    IN  IF platform = UNKNOWN
        THEN /\ initTimers' = timers
             /\ lastExit' = "unsupported"
             /\ UNCHANGED <<retryCount, triggers, failedChecks, scheduled>>
        ELSE IF TriggerExists
        THEN /\ initTimers' = timers
             /\ lastExit' = "exists"
             /\ UNCHANGED <<retryCount, triggers, failedChecks, scheduled>>
        ELSE IF checkPageReady(platform, dom)
        THEN /\ createFloatingButton
             /\ initTimers' = timers
             /\ lastExit' = "created"
             /\ UNCHANGED <<retryCount, failedChecks, scheduled>>
        ELSE /\ failedChecks' = failedChecks + 1
             /\ UNCHANGED triggers
             /\ IF retryCount < retryLimit
                THEN /\ UNCHANGED retryCount
                     /\ initTimers' = Append(timers, Timer("retry"))
                     /\ scheduled' = scheduled + 1
                     /\ lastExit' = "retry"
                ELSE /\ initTimers' = timers
                     /\ lastExit' = "gave up"
                     /\ UNCHANGED <<retryCount, scheduled>>

\* the body of initExtension, run with `timers` pending; it returns at line 33
\* ("unsupported"), at line 36 ("exists"), after line 43 ("created"), after
\* line 47 ("retry") or past the test of line 45 ("gave up")
initExtension(timers) ==
    LET platform == getCurrentPlatform(host)
    IN  IF platform = UNKNOWN
        THEN /\ initTimers' = timers
             /\ lastExit' = "unsupported"
             /\ UNCHANGED <<retryCount, triggers, failedChecks, scheduled>>
        ELSE IF TriggerExists
        THEN /\ initTimers' = timers
             /\ lastExit' = "exists"
             /\ UNCHANGED <<retryCount, triggers, failedChecks, scheduled>>
        ELSE IF checkPageReady(platform, dom)
        THEN /\ createFloatingButton
             /\ initTimers' = timers
             /\ lastExit' = "created"
             /\ UNCHANGED <<retryCount, failedChecks, scheduled>>
        ELSE /\ failedChecks' = failedChecks + 1
             /\ UNCHANGED triggers
             /\ IF retryCount < retryLimit
                THEN /\ retryCount' = retryCount + 1
                     /\ initTimers' = Append(timers, Timer("retry"))
                     /\ scheduled' = scheduled + 1
                     /\ lastExit' = "retry"
                ELSE /\ initTimers' = timers
                     /\ lastExit' = "gave up"
                     /\ UNCHANGED <<retryCount, scheduled>>

-----------------------------------------------------------------------------
(* DOM selectors (platform specific) *)

\* the filter of line 193: el.innerText && el.innerText.trim().length > 0
HasText(el) == el.text # <<>> /\ Len(Trim(el.text)) > 0

\* findUserMessages trying the secondary selector when the primary one yields
\* no node with text
findUserMessages_FallbackOnBlank(platform, forest) ==
    IF platform = GEMINI
    THEN LET primary == SelectSeq(QuerySelectorAll(forest, {"user-query"}), HasText)
             msgs == IF Len(primary) = 0
                     THEN QuerySelectorAll(forest,
                              {"[data-testid=user-query]", ".user-query"})
                     ELSE primary
         IN  SelectSeq(msgs, HasText)
    ELSE IF platform = CHATGPT
    THEN QuerySelectorAll(forest, {"[data-message-author-role=user]"})
    ELSE <<>>

findUserMessages(platform, forest) ==
    IF platform = GEMINI
    THEN LET primary == QuerySelectorAll(forest, {"user-query"})
             msgs == IF Len(primary) = 0
                     THEN QuerySelectorAll(forest,
                              {"[data-testid=user-query]", ".user-query"})
                     ELSE primary
         IN  SelectSeq(msgs, HasText)
    ELSE IF platform = CHATGPT
    THEN QuerySelectorAll(forest, {"[data-message-author-role=user]"})
    ELSE <<>>

\* the tests of lines 210-224 on one candidate
IsAIResponse(platform, candidate) ==
    \/ /\ platform = GEMINI
       /\ \/ candidate.tag = "MODEL-RESPONSE"
          \/ candidate.cls = "model-response"
          \/ candidate.testid = "model-response"
    \/ /\ platform = CHATGPT
       /\ \/ QuerySelector(candidate.kids, {"[data-message-author-role=assistant]"}) # Null
          \/ candidate.role = "assistant"

\* the loop of lines 209-228 with one test too many
RECURSIVE WalkSiblings_OneMore(_, _, _)
WalkSiblings_OneMore(platform, following, attempts) ==
    IF following # <<>> /\ attempts <= LookAhead
    THEN IF IsAIResponse(platform, Head(following))
         THEN Head(following)
         ELSE WalkSiblings_OneMore(platform, Tail(following), attempts + 1)
    ELSE Null

\* the loop of lines 209-228: candidate is the first of `following`, the siblings
\* not yet visited (null when none is left), and candidate.nextElementSibling
\* the first of the rest
RECURSIVE WalkSiblings(_, _, _)
WalkSiblings(platform, following, attempts) ==
    IF following # <<>> /\ attempts < LookAhead
    THEN IF IsAIResponse(platform, Head(following))
         THEN Head(following)
         ELSE WalkSiblings(platform, Tail(following), attempts + 1)
    ELSE Null

\* findAIResponse for the element with id userMessage living in forest
findAIResponse(userMessage, platform, forest) ==
    LET walked == WalkSiblings(platform, FollowingSiblings(forest, userMessage), 0)
        turn == closest(forest, userMessage, "[data-testid^=conversation-turn]")
    IN  IF walked # Null THEN walked
        ELSE IF /\ platform = CHATGPT
                /\ turn # Null
                /\ nextElementSibling(forest, turn.id) # Null
        THEN nextElementSibling(forest, turn.id)
        ELSE Null

-----------------------------------------------------------------------------
(* Utilities *)

NotFoundMessage == "AI response not found"
CopiedMessage == "Response copied!"
FailedMessage == "Failed to copy"
Messages == {NotFoundMessage, CopiedMessage, FailedMessage}

\* showNotification: the type argument is not used
showNotification(message) ==
    /\ notes' = Append(notes, message)
    /\ shown' = [shown EXCEPT ![message] = @ + 1]

\* time is counted in units of 500 ms
BgRevertDelay == 3
TransitionRevertDelay == 1

HighlightTransition == "background-color 0.5s ease"

highlightColor(platform) ==
    IF platform = GEMINI THEN "rgba(26, 115, 232, 0.2)" ELSE "rgba(16, 163, 127, 0.2)"

\* highlightElement: the styles are overwritten and the first revert is scheduled;
\* the timer carries the values the closure captured
highlightElement(element, platform) ==
    LET originalBg == style[element].bg
        originalTransition == style[element].tr
    IN  /\ style' = [style EXCEPT ![element] =
                        [bg |-> highlightColor(platform), tr |-> HighlightTransition]]
        /\ hlTimers' = Append(hlTimers,
                              [kind |-> "bg", el |-> element, bg |-> originalBg,
                               tr |-> originalTransition, rem |-> BgRevertDelay])

\* scrollToElement
scrollToElement(element) == scrollTarget' = element

-----------------------------------------------------------------------------
(* Actions *)

\* copyAIResponse up to its await: no response, or a write that is pending, or
\* a call on a missing clipboard object, which throws inside the try block
\* copyAIResponse that returns silently when no response is found
copyAIResponse_Silent(userMessage, platform) ==
    LET aiResponse == findAIResponse(userMessage, platform, dom)
    IN  IF aiResponse = Null
        THEN UNCHANGED <<notes, shown, misses, writes>>
        ELSE /\ writes' = Append(writes, aiResponse.text)
             /\ UNCHANGED <<notes, shown, misses>>

\* copyAIResponse up to its await: the write is issued and left pending
copyAIResponse(userMessage, platform) ==
    LET aiResponse == findAIResponse(userMessage, platform, dom)
    IN  IF aiResponse = Null
        THEN /\ showNotification(NotFoundMessage)
             /\ misses' = misses + 1
             /\ UNCHANGED writes
        ELSE /\ writes' = Append(writes, aiResponse.text)
             /\ UNCHANGED <<notes, shown, misses>>

\* copyAIResponse after its await with the catch block left out
copyAIResponseSettled_NoCatch(ok) ==
    IF ok
    THEN /\ showNotification(CopiedMessage)
         /\ UNCHANGED uncaught
    ELSE /\ uncaught' = uncaught + 1
         /\ UNCHANGED <<notes, shown>>

\* copyAIResponse after its await: the write has settled (lines 260-264)
copyAIResponseSettled(ok) ==
    /\ IF ok
       THEN showNotification(CopiedMessage)
       ELSE showNotification(FailedMessage)
    /\ UNCHANGED uncaught

\* goToAIResponse without the fallback of line 270
goToAIResponse_ResponseOnly(userMessage, platform) ==
    LET aiResponse == findAIResponse(userMessage, platform, dom)
    IN  /\ jumps' = jumps + 1
        /\ IF aiResponse # Null
           THEN /\ scrollToElement(aiResponse.id)
                /\ highlightElement(aiResponse.id, platform)
           ELSE UNCHANGED <<scrollTarget, style, hlTimers>>

goToAIResponse(userMessage, platform) ==
    LET aiResponse == findAIResponse(userMessage, platform, dom)
        target == IF aiResponse # Null THEN aiResponse.id ELSE userMessage
    IN  /\ scrollToElement(target)
        /\ highlightElement(target, platform)
        /\ jumps' = jumps + 1

-----------------------------------------------------------------------------
(* List generation *)

ToLowerChar(c) == IF c = "A" THEN "a" ELSE IF c = "B" THEN "b" ELSE c

\* String.prototype.toLowerCase
ToLower(t) == [i \in DOMAIN t |-> ToLowerChar(t[i])]

\* String.prototype.includes
IsSubstring(term, t) ==
    \E k \in 0..(Len(t) - Len(term)) : SubSeq(t, k + 1, k + Len(term)) = term

\* el.textContent: the model keeps one text per element
TextContent(el) == el.text

extractMessageText(el) ==
    IF Trim(el.text) # <<>> THEN Trim(el.text) ELSE Trim(TextContent(el))

\* An HTML string is a sequence of tokens: start tags, end tags and buttons
\* (a start tag, its content and its end tag in one); plain characters add no
\* element and are left out.  A character of a message text is one letter, or
\* a piece of markup the user typed: "<div>" or "</div>".
StartTag(name, index, key) == [t |-> "start", name |-> name, index |-> index, key |-> key]
EndTag == [t |-> "end"]
Button(name) == [t |-> "button", name |-> name]

Div(name) == StartTag(name, -1, <<>>)

\* ${text} in a template: the text is inserted as it is, so markup in it is markup
RECURSIVE RawText(_)
RawText(text) ==
    IF text = <<>> THEN <<>>
    ELSE (IF Head(text) = "<div>" THEN <<Div("div")>>
          ELSE IF Head(text) = "</div>" THEN <<EndTag>>
          ELSE <<>>) \o RawText(Tail(text))

\* the template of lines 133-142 for the message at position i
PromptItemHTML(msg, i) ==
    LET text == extractMessageText(msg)
    IN  <<StartTag("prompt-item", i - 1, ToLower(text)),
          Div("prompt-number"), EndTag,
          Div("prompt-text")>> \o RawText(text) \o <<EndTag,
          Div("prompt-actions"), Button("copy-btn"), Button("goto-btn"), EndTag,
          EndTag>>

RECURSIVE JoinItems(_, _)
JoinItems(userMessages, i) ==
    IF i > Len(userMessages) THEN <<>>
    ELSE PromptItemHTML(userMessages[i], i) \o JoinItems(userMessages, i + 1)

\* generatePromptsListHTML: the HTML string of the list
generatePromptsListHTML(userMessages) ==
    IF userMessages = <<>> THEN <<Div("no-prompts"), EndTag>>
    ELSE JoinItems(userMessages, 1)

\* modalHTML of lines 91-109 from the content area on; the header before it
\* holds no message text and closes every element it opens
modalHTML(userMessages) ==
    <<Div("modal-card"), Div("prompts-content"), Div("prompts-container")>>
    \o generatePromptsListHTML(userMessages)
    \o <<EndTag, EndTag, EndTag>>

\* An element of a modal is recorded with the positions of its ancestors
\* (outermost first), with closest('.prompt-item') as a position (0 for null)
\* and with whether it lies in #prompts-container; closest looks at the
\* element itself and then at what its parent finds
Element(tok, open, out) ==
    LET self == Len(out) + 1
        parent == IF open = <<>> THEN 0 ELSE open[Len(open)]
    IN  [name |-> tok.name,
         index |-> IF tok.t = "start" THEN tok.index ELSE -1,
         key |-> IF tok.t = "start" THEN tok.key ELSE <<>>,
         chain |-> open,
         item |-> IF tok.name = "prompt-item" THEN self
                  ELSE IF parent = 0 THEN 0 ELSE out[parent].item,
         listened |-> tok.name = "prompts-container"
                      \/ (parent # 0 /\ out[parent].listened)]

\* the HTML parser behind innerHTML: a start tag opens an element inside the
\* innermost open element, an end tag closes the innermost open element and is
\* ignored when none is open
RECURSIVE ParseHTML(_, _, _)
ParseHTML(tokens, open, out) ==
    IF tokens = <<>> THEN out
    ELSE LET tok == Head(tokens)
         IN  IF tok.t = "start"
             THEN ParseHTML(Tail(tokens), Append(open, Len(out) + 1),
                            Append(out, Element(tok, open, out)))
             ELSE IF tok.t = "button"
             THEN ParseHTML(Tail(tokens), open, Append(out, Element(tok, open, out)))
             ELSE ParseHTML(Tail(tokens),
                            IF open = <<>> THEN open ELSE SubSeq(open, 1, Len(open) - 1),
                            out)

\* modal.innerHTML = modalHTML: the elements of the modal in document order
innerHTML(html) == ParseHTML(html, <<>>, <<>>)

\* querySelectorAll('.prompt-item') on a modal: positions in document order
PromptItems(els) ==
    SelectSeq([p \in DOMAIN els |-> p], LAMBDA p : els[p].name = "prompt-item")

\* what the listener of lines 164-179 reads from a click on an element: the
\* .prompt-item it finds, the branch it takes, and whether the click reaches it
ClickOn(el) ==
    [item |-> el.item,
     part |-> IF el.name = "copy-btn" THEN "copy"
              ELSE IF el.name = "goto-btn" THEN "goto"
              ELSE "body",
     listened |-> el.listened]

\* clicks on two elements for which the listener reads the same are the same
\* event: the first element of each kind stands for the others
ClickTargets(els) ==
    {e \in DOMAIN els : \A d \in 1..(e - 1) : ClickOn(els[d]) # ClickOn(els[e])}

\* the modal element showPromptsList builds: the messages its listeners close
\* over, its elements, and the style.display of its .prompt-item elements
NewModal(platform) ==
    LET userMessages == findUserMessages(platform, dom)
        els == innerHTML(modalHTML(userMessages))
        items == PromptItems(els)
    IN  [msgs |-> [i \in DOMAIN userMessages |-> userMessages[i].id],
         els |-> els,
         targets |-> ClickTargets(els),
         rows |-> [r \in DOMAIN items |->
                     [el |-> items[r], index |-> els[items[r]].index,
                      key |-> els[items[r]].key, display |-> ""]]]

RemoveAt(seq, i) == SubSeq(seq, 1, i - 1) \o SubSeq(seq, i + 1, Len(seq))

\* showPromptsList without the removal of lines 82-83
showPromptsList_KeepOld(platform) ==
    /\ modals' = Append(modals, NewModal(platform))
    /\ focusTimers' = focusTimers + 1
    /\ UNCHANGED focused

\* showPromptsList: getElementById finds the first modal in the document
showPromptsList(platform) ==
    /\ modals' = Append(IF modals # <<>> THEN Tail(modals) ELSE modals, NewModal(platform))
    /\ focusTimers' = focusTimers + 1
    /\ focused' = IF modals # <<>> THEN FALSE ELSE focused

-----------------------------------------------------------------------------
(* The Readiness Poller and the address watcher with their environment *)

Urls == {"u1", "u2"}

\* hostnames the Poller is observed on: one per platform tag
PollerHosts == {<<"chatgpt.com">>, <<"gemini.google.com">>, <<"example.org">>}

\* what the host page renders while the Poller waits
PollKinds ==
    { Node(1, "DIV", NoAttr, NoAttr, NoAttr, <<"a">>),
      Node(1, "USER-QUERY", NoAttr, NoAttr, NoAttr, <<"a">>),
      Node(1, "DIV", "user-query", NoAttr, NoAttr, <<"a">>),
      Node(1, "DIV", NoAttr, NoAttr, "user", <<"a">>) }

\* the state of the Navigator UI and of what its actions touch
uiVars == <<modals, focusTimers, focused, notes, writes, clipboard, style, hlTimers,
            scrollTarget, event, shown, settled, misses, uncaught, jumps>>

\* what the Poller and the watcher leave alone
outsidePoller == <<listResult, respResult, platformResult, uiVars>>

pollerVars == <<pc, host, href, lastUrl, retryCount, dclPending, initTimers, triggers,
                failedChecks, scheduled, lastExit, observed, navCount>>

\* the Navigator UI before anything was built
UIAtLoad ==
    /\ modals = <<>>
    /\ focusTimers = 0
    /\ focused = FALSE
    /\ notes = <<>>
    /\ writes = <<>>
    /\ clipboard = <<>>
    /\ style = <<>>
    /\ hlTimers = <<>>
    /\ scrollTarget = 0
    /\ event = NoEvent
    /\ shown = [m \in Messages |-> 0]
    /\ settled = [ok |-> 0, failed |-> 0]
    /\ misses = 0
    /\ uncaught = 0
    /\ jumps = 0

InitPoller ==
    /\ pc = "load"
    /\ host \in PollerHosts
    /\ href = "u1"
    /\ lastUrl = "unset"
    /\ retryCount = 0
    /\ dclPending = FALSE
    /\ initTimers = <<>>
    /\ triggers = 0
    /\ failedChecks = 0
    /\ scheduled = 0
    /\ lastExit = "never ran"
    /\ observed = 0
    /\ navCount = 0
    /\ dom = <<>>
    /\ listResult = [called |-> FALSE, out |-> <<>>]
    /\ respResult = [msg |-> 0, out |-> 0]
    /\ platformResult = [called |-> FALSE, out |-> "none"]
    /\ UIAtLoad

\* lines 321-335: the bootstrap, with document.readyState = 'loading' or not
Bootstrap(loading) ==
    /\ UNCHANGED outsidePoller
    /\ pc = "load"
    /\ pc' = "run"
    /\ IF loading
       THEN /\ dclPending' = TRUE
            /\ UNCHANGED <<retryCount, initTimers, triggers, failedChecks, scheduled,
                           lastExit>>
       ELSE /\ initExtension(initTimers)
            /\ UNCHANGED dclPending
    /\ lastUrl' = href
    /\ UNCHANGED <<host, href, dom, observed, navCount>>

\* the DOMContentLoaded listener of line 322
DOMContentLoaded ==
    /\ UNCHANGED outsidePoller
    /\ pc = "run"
    /\ dclPending
    /\ dclPending' = FALSE
    /\ initExtension(initTimers)
    /\ UNCHANGED <<pc, host, href, lastUrl, dom, observed, navCount>>

\* the oldest setTimeout(initExtension, 1000) timer fires (equal delays: oldest first)
InitTimerFires ==
    /\ UNCHANGED outsidePoller
    /\ initTimers # <<>>
    /\ initExtension(Tail(initTimers))
    /\ UNCHANGED <<pc, host, href, lastUrl, dclPending, dom, observed, navCount>>

MarkStale(timers) == [i \in DOMAIN timers |-> [timers[i] EXCEPT !.stale = TRUE]]

\* the watcher's callback without the comparison of line 330
ObserverCallback_Always ==
    /\ UNCHANGED outsidePoller
    /\ pc = "run"
    /\ Len(initTimers) < MaxNav + 3
    /\ lastUrl' = href
    /\ retryCount' = 0
    /\ initTimers' = Append(MarkStale(initTimers), Timer("restart"))
    /\ failedChecks' = 0
    /\ scheduled' = 0
    /\ observed' = IF href # lastUrl THEN observed + 1 ELSE observed
    /\ UNCHANGED <<pc, host, href, dclPending, triggers, dom, lastExit, navCount>>

\* the watcher's callback without the reset of line 332
ObserverCallback_NoReset ==
    /\ UNCHANGED outsidePoller
    /\ pc = "run"
    /\ IF href # lastUrl
       THEN /\ lastUrl' = href
            /\ initTimers' = Append(MarkStale(initTimers), Timer("restart"))
            /\ failedChecks' = 0
            /\ scheduled' = 0
            /\ observed' = observed + 1
            /\ UNCHANGED retryCount
       ELSE UNCHANGED <<lastUrl, retryCount, initTimers, failedChecks, scheduled, observed>>
    /\ UNCHANGED <<pc, host, href, dclPending, triggers, dom, lastExit, navCount>>

\* the MutationObserver callback of lines 329-335, run on some mutation of the body
ObserverCallback ==
    /\ UNCHANGED outsidePoller
    /\ pc = "run"
    /\ IF href # lastUrl
       THEN /\ lastUrl' = href
            /\ retryCount' = 0
            /\ initTimers' = Append(MarkStale(initTimers), Timer("restart"))
            /\ failedChecks' = 0
            /\ scheduled' = 0
            /\ observed' = observed + 1
       ELSE UNCHANGED <<lastUrl, retryCount, initTimers, failedChecks, scheduled, observed>>
    /\ UNCHANGED <<pc, host, href, dclPending, triggers, dom, lastExit, navCount>>

\* the host page changes its address without a reload (same hostname)
HostNavigates(u) ==
    /\ UNCHANGED outsidePoller
    /\ navCount < MaxNav
    /\ u # href
    /\ href' = u
    /\ navCount' = navCount + 1
    /\ UNCHANGED <<pc, host, lastUrl, retryCount, dclPending, initTimers, triggers, dom,
                   failedChecks, scheduled, lastExit, observed>>

\* the host page renders one more node
HostRenders(n) ==
    /\ UNCHANGED outsidePoller
    /\ Len(dom) < MaxPollNodes
    /\ dom' = Append(dom, [n EXCEPT !.id = Len(dom) + 1])
    /\ UNCHANGED pollerVars

\* the host page drops the conversation it had rendered
HostClears ==
    /\ UNCHANGED outsidePoller
    /\ dom # <<>>
    /\ dom' = <<>>
    /\ UNCHANGED pollerVars

\* the host page removes a trigger element (a re-render of the body)
HostRemovesTrigger ==
    /\ UNCHANGED outsidePoller
    /\ triggers > 0
    /\ triggers' = triggers - 1
    /\ UNCHANGED <<pc, host, href, lastUrl, retryCount, dclPending, initTimers, dom,
                   failedChecks, scheduled, lastExit, observed, navCount>>

NextPoller ==
    \/ \E loading \in BOOLEAN : Bootstrap(loading)
    \/ DOMContentLoaded
    \/ InitTimerFires
    \/ ObserverCallback
    \/ \E u \in Urls : HostNavigates(u)
    \/ \E n \in PollKinds : HostRenders(n)
    \/ HostClears
    \/ HostRemovesTrigger

SpecPoller == InitPoller /\ [][NextPoller]_vars

\* timers that are due fire, and so does the DOMContentLoaded event
SpecPollerFair ==
    /\ InitPoller
    /\ [][NextPoller]_vars
    /\ WF_vars(InitTimerFires)
    /\ WF_vars(DOMContentLoaded)

-----------------------------------------------------------------------------
(* getCurrentPlatform applied to hostnames *)

\* the pieces hostnames are made of: the markers of line 22 and line 24 and
\* pieces that hold no marker
Fragments == {"www.", "chatgpt.com", "openai.com", "gemini.google.com", "example.org"}

Hostnames == UNION {[1..n -> Fragments] : n \in 0..MaxHostFragments}

InitPlatform ==
    /\ pc = "load"
    /\ host \in Hostnames
    /\ href = "u1"
    /\ lastUrl = "unset"
    /\ retryCount = 0
    /\ dclPending = FALSE
    /\ initTimers = <<>>
    /\ triggers = 0
    /\ failedChecks = 0
    /\ scheduled = 0
    /\ lastExit = "never ran"
    /\ observed = 0
    /\ navCount = 0
    /\ dom = <<>>
    /\ listResult = [called |-> FALSE, out |-> <<>>]
    /\ respResult = [msg |-> 0, out |-> 0]
    /\ platformResult = NoPlatformCall
    /\ UIAtLoad

\* a call of getCurrentPlatform on the page
CallGetCurrentPlatform ==
    /\ platformResult = NoPlatformCall
    /\ platformResult' = [called |-> TRUE, out |-> getCurrentPlatform(host)]
    /\ UNCHANGED <<pollerVars, dom, listResult, respResult, uiVars>>

\* the caller is done with the value
ReturnFromPlatform ==
    /\ platformResult # NoPlatformCall
    /\ platformResult' = NoPlatformCall
    /\ UNCHANGED <<pollerVars, dom, listResult, respResult, uiVars>>

NextPlatform == CallGetCurrentPlatform \/ ReturnFromPlatform

SpecPlatform == InitPlatform /\ [][NextPlatform]_vars

-----------------------------------------------------------------------------
(* findAIResponse applied to the conversations a host page renders *)

Plain == Node(0, "DIV", NoAttr, NoAttr, NoAttr, <<"a">>)

\* an element with children
With(n, kids) == [n EXCEPT !.kids = kids]

\* the elements a page of each platform renders next to plain ones: its own
\* user messages, responses and turn containers
RespKinds(platform) ==
    IF platform = CHATGPT
    THEN { Node(0, "DIV", NoAttr, NoAttr, "user", <<"a">>),
           Node(0, "DIV", "conversation-turn", NoAttr, "user", <<"a">>),
           With(Node(0, "ARTICLE", "conversation-turn", NoAttr, NoAttr, <<"a">>),
                <<Node(0, "DIV", NoAttr, NoAttr, "user", <<"a">>)>>),
           Node(0, "DIV", NoAttr, NoAttr, "assistant", <<"a">>),
           With(Node(0, "ARTICLE", "conversation-turn", NoAttr, NoAttr, <<"a">>),
                <<Node(0, "DIV", NoAttr, NoAttr, "assistant", <<"a">>)>>) }
    ELSE IF platform = GEMINI
    THEN { Node(0, "USER-QUERY", NoAttr, NoAttr, NoAttr, <<"a">>),
           Node(0, "MODEL-RESPONSE", NoAttr, NoAttr, NoAttr, <<"a">>),
           Node(0, "DIV", NoAttr, "model-response", NoAttr, <<"a">>),
           Node(0, "DIV", "model-response", NoAttr, NoAttr, <<"a">>) }
    ELSE { Node(0, "DIV", NoAttr, NoAttr, "user", <<"a">>),
           Node(0, "MODEL-RESPONSE", NoAttr, NoAttr, NoAttr, <<"a">>) }

IsPlain(n) == [n EXCEPT !.id = 0] = Plain

MarkedCount(forest) == Len(SelectSeq(forest, LAMBDA n : ~IsPlain(n)))

RECURSIVE MaxOf(_)
MaxOf(flat) ==
    IF flat = <<>> THEN 0
    ELSE LET rest == MaxOf(Tail(flat))
         IN  IF Head(flat).id > rest THEN Head(flat).id ELSE rest

\* the largest id in use in a forest
MaxId(forest) == MaxOf(Flatten(forest))

\* a rendered element and its children get fresh ids, in document order
Stamp(n, base) ==
    [n EXCEPT !.id = base + 1,
              !.kids = [i \in DOMAIN n.kids |-> [n.kids[i] EXCEPT !.id = base + 1 + i]]]

NoCall == [msg |-> 0, out |-> 0]

InitResponse ==
    /\ InitPoller
    /\ pc = "load"

\* the host page appends an element to the conversation; what it renders besides
\* plain elements and user messages comes after the first user message
RenderSibling(n) ==
    /\ respResult = NoCall
    /\ Len(dom) < MaxSiblings
    /\ IsPlain(n) \/ MarkedCount(dom) < MaxMarked
    /\ \/ IsPlain(n)
       \/ findUserMessages(getCurrentPlatform(host), <<n>>) # <<>>
       \/ findUserMessages(getCurrentPlatform(host), dom) # <<>>
    /\ dom' = Append(dom, Stamp(n, MaxId(dom)))
    /\ UNCHANGED <<pollerVars, listResult, respResult, platformResult, uiVars>>

\* findAIResponse is called on one of the located user messages; the page renders
\* nothing until the caller has used the value returned
CallFindAIResponse(m) ==
    /\ respResult = NoCall
    /\ respResult' = [msg |-> m.id,
                      out |-> findAIResponse(m.id, getCurrentPlatform(host), dom).id]
    /\ UNCHANGED <<pollerVars, dom, listResult, platformResult, uiVars>>

\* the caller is done with the value returned
ReturnFromCall ==
    /\ respResult # NoCall
    /\ respResult' = NoCall
    /\ UNCHANGED <<pollerVars, dom, listResult, platformResult, uiVars>>

NextResponse ==
    \/ \E n \in RespKinds(getCurrentPlatform(host)) \cup {Plain} : RenderSibling(n)
    \/ ReturnFromCall
    \/ LET located == findUserMessages(getCurrentPlatform(host), dom)
       IN  \E i \in DOMAIN located : CallFindAIResponse(located[i])

SpecResponse == InitResponse /\ [][NextResponse]_vars

-----------------------------------------------------------------------------
(* findUserMessages applied to the conversations a host page renders *)

\* rendered texts: none, white space only, and text with and without white space around it
Texts == {<<>>, <<" ">>, <<"a">>, <<" ", "a", " ">>}

\* user messages in the markup of either platform, with every text, plain
\* elements, and user messages nested in another element
MsgKinds ==
    { Node(0, "USER-QUERY", NoAttr, NoAttr, NoAttr, t) : t \in Texts }
    \cup { Node(0, "DIV", "user-query", NoAttr, NoAttr, t) : t \in Texts }
    \cup { Node(0, "DIV", NoAttr, "user-query", NoAttr, t) : t \in Texts }
    \cup { Node(0, "DIV", NoAttr, NoAttr, "user", t) : t \in Texts }
    \cup { Plain,
           With(Node(0, "USER-QUERY", NoAttr, NoAttr, NoAttr, <<"a">>),
                <<Node(0, "DIV", NoAttr, "user-query", NoAttr, <<"a">>)>>),
           With(Node(0, "ARTICLE", "conversation-turn", NoAttr, NoAttr, <<"a">>),
                <<Node(0, "DIV", NoAttr, NoAttr, "user", <<>>)>>) }

NoList == [called |-> FALSE, out |-> <<>>]

InitMessages ==
    /\ InitPoller
    /\ listResult = NoList

\* the host page appends an element to the conversation
RenderMessage(n) ==
    /\ listResult = NoList
    /\ Len(dom) < MaxMsgNodes
    /\ dom' = Append(dom, Stamp(n, MaxId(dom)))
    /\ UNCHANGED <<pollerVars, listResult, respResult, platformResult, uiVars>>

\* findUserMessages is called; the page renders nothing until the caller has used
\* the list returned
CallFindUserMessages ==
    /\ listResult = NoList
    /\ listResult' = [called |-> TRUE,
                      out |-> findUserMessages(getCurrentPlatform(host), dom)]
    /\ UNCHANGED <<pollerVars, dom, respResult, platformResult, uiVars>>

\* the caller is done with the list returned
ReturnFromList ==
    /\ listResult # NoList
    /\ listResult' = NoList
    /\ UNCHANGED <<pollerVars, dom, respResult, platformResult, uiVars>>

NextMessages ==
    \/ \E n \in MsgKinds : RenderMessage(n)
    \/ CallFindUserMessages
    \/ ReturnFromList

SpecMessages == InitMessages /\ [][NextMessages]_vars

-----------------------------------------------------------------------------
(* The Navigator UI with its environment: the user, timers, the clipboard and
   the host page *)

UIHosts == {<<"chatgpt.com">>, <<"gemini.google.com">>}

RECURSIVE StampForest(_, _)
StampForest(forest, base) ==
    IF forest = <<>> THEN <<>>
    ELSE <<Stamp(Head(forest), base)>>
         \o StampForest(Tail(forest), base + 1 + Len(Head(forest).kids))

ChatUser(t) == Node(0, "DIV", NoAttr, NoAttr, "user", t)
ChatAssistant == Node(0, "DIV", NoAttr, NoAttr, "assistant", <<"a">>)
ChatTurn(kids) == With(Node(0, "ARTICLE", "conversation-turn", NoAttr, NoAttr, <<"a">>), kids)
GeminiUser(t) == Node(0, "USER-QUERY", NoAttr, NoAttr, NoAttr, t)
GeminiResponse == Node(0, "MODEL-RESPONSE", NoAttr, NoAttr, NoAttr, <<"a">>)

\* the conversations on the page when the trigger is built: the page is ready
UIThreads(platform) ==
    IF platform = CHATGPT
    THEN { <<ChatTurn(<<ChatUser(<<"a">>)>>), ChatTurn(<<ChatAssistant>>)>>,
           <<ChatUser(<<"a">>), ChatUser(<<" ", "A">>), ChatAssistant>>,
           <<ChatUser(<<"a">>)>> }
    ELSE { <<GeminiUser(<<"a">>), GeminiUser(<<" ", "A">>), GeminiResponse>>,
           <<GeminiUser(<<" ">>)>> }

DefaultStyle == [bg |-> "", tr |-> ""]

\* the record of a UI event: its kind, the message of the row it hit (0 when it
\* hit no row), the modals in the document when it was dispatched and, for an
\* input event, the value of the search field
Event(kind, msg) == [kind |-> kind, msg |-> msg, open |-> Len(modals), value |-> <<>>]

Terms == {<<>>, <<"a">>, <<"B">>}

Platform == getCurrentPlatform(host)

InitUI ==
    /\ pc = "run"
    /\ host \in UIHosts
    /\ href = "u1"
    /\ lastUrl = "u1"
    /\ retryCount = 0
    /\ dclPending = FALSE
    /\ initTimers = <<>>
    /\ triggers = 1
    /\ failedChecks = 0
    /\ scheduled = 0
    /\ lastExit = "created"
    /\ observed = 0
    /\ navCount = 0
    /\ dom \in {StampForest(t, 0) : t \in UIThreads(getCurrentPlatform(host))}
    /\ listResult = NoList
    /\ respResult = NoCall
    /\ platformResult = NoPlatformCall
    /\ modals = <<>>
    /\ focusTimers = 0
    /\ focused = FALSE
    /\ notes = <<>>
    /\ writes = <<>>
    /\ clipboard = <<>>
    /\ style = [id \in Ids(dom) |-> DefaultStyle]
    /\ hlTimers = <<>>
    /\ scrollTarget = 0
    /\ event = NoEvent
    /\ shown = [m \in Messages |-> 0]
    /\ settled = [ok |-> 0, failed |-> 0]
    /\ misses = 0
    /\ uncaught = 0
    /\ jumps = 0

uiFrame == <<pollerVars, listResult, respResult, platformResult>>

\* copy actions so far
Copies == settled.ok + settled.failed + misses + Len(writes) + uncaught

\* a removal that leaves the modal in the document
RemoveModal_Keep(i) == UNCHANGED <<modals, focused>>

\* modal.remove() on the i-th modal of the document
RemoveModal(i) ==
    /\ modals' = RemoveAt(modals, i)
    /\ focused' = IF i = 1 THEN FALSE ELSE focused

\* a click on the trigger: the listener of lines 71-75
TriggerClick ==
    /\ triggers > 0
    /\ focusTimers < MaxFocusTimers
    /\ event' = Event("trigger", 0)
    /\ showPromptsList(Platform)
    /\ UNCHANGED <<uiFrame, dom, notes, writes, clipboard, style, hlTimers, scrollTarget,
                   shown, settled, misses, uncaught, jumps>>

\* a click on the close button of modal i (line 149)
CloseClick(i) ==
    /\ event' = Event("close", 0)
    /\ RemoveModal(i)
    /\ UNCHANGED <<uiFrame, dom, focusTimers, notes, writes, clipboard, style, hlTimers,
                   scrollTarget, shown, settled, misses, uncaught, jumps>>

\* a click on the backdrop of modal i: e.target is the modal (lines 150-152)
BackdropClick(i) ==
    /\ event' = Event("backdrop", 0)
    /\ RemoveModal(i)
    /\ UNCHANGED <<uiFrame, dom, focusTimers, notes, writes, clipboard, style, hlTimers,
                   scrollTarget, shown, settled, misses, uncaught, jumps>>

\* a click inside the card of modal i that hits no row, the close button or the
\* backdrop: lines 151 and 166 return
CardClick(i) ==
    /\ event' = Event("card", 0)
    /\ UNCHANGED <<uiFrame, dom, modals, focusTimers, focused, notes, writes, clipboard,
                   style, hlTimers, scrollTarget, shown, settled, misses, uncaught, jumps>>

\* the search listener comparing the value as typed
SearchInput_CaseSensitive(i, value) ==
    LET rows == modals[i].rows
    IN  /\ event' = [Event("search", 0) EXCEPT !.value = value]
        /\ modals' = [modals EXCEPT ![i].rows =
                         [r \in DOMAIN rows |->
                             [rows[r] EXCEPT !.display =
                                 IF IsSubstring(value, rows[r].key) THEN "grid" ELSE "none"]]]
        /\ UNCHANGED <<uiFrame, dom, focusTimers, focused, notes, writes, clipboard, style,
                       hlTimers, scrollTarget, shown, settled, misses, uncaught, jumps>>

\* an input event on the search field of modal i (lines 155-161)
SearchInput(i, value) ==
    LET term == ToLower(value)
        rows == modals[i].rows
    IN  /\ event' = [Event("search", 0) EXCEPT !.value = value]
        /\ modals' = [modals EXCEPT ![i].rows =
                         [r \in DOMAIN rows |->
                             [rows[r] EXCEPT !.display =
                                 IF IsSubstring(term, rows[r].key) THEN "grid" ELSE "none"]]]
        /\ UNCHANGED <<uiFrame, dom, focusTimers, focused, notes, writes, clipboard, style,
                       hlTimers, scrollTarget, shown, settled, misses, uncaught, jumps>>

\* an element of a modal is rendered unless it lies in a .prompt-item (itself
\* included) whose style.display is "none"
Rendered(modal, e) ==
    \A r \in DOMAIN modal.rows :
        (modal.rows[r].el = e \/ \E k \in DOMAIN modal.els[e].chain :
                                    modal.els[e].chain[k] = modal.rows[r].el)
            => modal.rows[r].display # "none"

\* a click on element e of modal i that the delegated listener of lines
\* 164-179 acts on: e lies in #prompts-container and in a .prompt-item
ItemClick(i, e) ==
    LET els == modals[i].els
        click == ClickOn(els[e])
        item == click.item
        index == els[item].index
        msg == modals[i].msgs[index + 1]
        part == click.part
    IN  /\ click.listened
        /\ item # 0
        /\ Rendered(modals[i], e)
        /\ event' = Event(part, msg)
        /\ IF part = "copy"
           THEN /\ Copies + jumps < MaxItemActions
                /\ copyAIResponse(msg, Platform)
                /\ UNCHANGED <<modals, focused, style, hlTimers, scrollTarget, jumps, settled>>
           ELSE IF part = "goto"
           THEN /\ Copies + jumps < MaxItemActions
                /\ goToAIResponse(msg, Platform)
                /\ RemoveModal(i)
                /\ UNCHANGED <<notes, writes, shown, settled, misses>>
           ELSE /\ scrollToElement(msg)
                /\ RemoveModal(i)
                /\ UNCHANGED <<notes, writes, shown, settled, misses, style, hlTimers, jumps>>
        /\ UNCHANGED <<uiFrame, dom, focusTimers, clipboard, uncaught>>

\* a pending writeText settles and copyAIResponse resumes (lines 260-264)
WriteSettles(w, ok) ==
    /\ event' = NoEvent
    /\ writes' = RemoveAt(writes, w)
    /\ clipboard' = IF ok THEN writes[w] ELSE clipboard
    /\ settled' = IF ok THEN [settled EXCEPT !.ok = @ + 1]
                         ELSE [settled EXCEPT !.failed = @ + 1]
    /\ copyAIResponseSettled(ok)
    /\ UNCHANGED <<uiFrame, dom, modals, focusTimers, focused, style, hlTimers,
                   scrollTarget, misses, jumps>>

\* the timer of line 314 of the oldest notification fires
NotificationExpires ==
    /\ notes # <<>>
    /\ event' = NoEvent
    /\ notes' = Tail(notes)
    /\ UNCHANGED <<uiFrame, dom, modals, focusTimers, focused, writes, clipboard, style,
                   hlTimers, scrollTarget, shown, settled, misses, uncaught, jumps>>

\* a timer of line 115 fires
FocusTimerFires ==
    /\ focusTimers > 0
    /\ event' = NoEvent
    /\ focusTimers' = focusTimers - 1
    /\ focused' = IF modals # <<>> THEN TRUE ELSE focused
    /\ UNCHANGED <<uiFrame, dom, modals, notes, writes, clipboard, style, hlTimers,
                   scrollTarget, shown, settled, misses, uncaught, jumps>>

\* a timer of highlightElement that is due fires; timers of equal delay fire in
\* the order they were set
HlTimerFires(k) ==
    LET t == hlTimers[k]
    IN  /\ t.rem = 0
        /\ \A j \in 1..(k - 1) : ~(hlTimers[j].kind = t.kind /\ hlTimers[j].rem = 0)
        /\ event' = NoEvent
        /\ IF t.kind = "bg"
           THEN /\ style' = [style EXCEPT ![t.el].bg = t.bg]
                /\ hlTimers' = Append(RemoveAt(hlTimers, k),
                                      [t EXCEPT !.kind = "tr", !.rem = TransitionRevertDelay])
           ELSE /\ style' = [style EXCEPT ![t.el].tr = t.tr]
                /\ hlTimers' = RemoveAt(hlTimers, k)
        /\ UNCHANGED <<uiFrame, dom, modals, focusTimers, focused, notes, writes, clipboard,
                       scrollTarget, shown, settled, misses, uncaught, jumps>>

\* 500 ms pass with no highlight timer due
Tick ==
    /\ hlTimers # <<>>
    /\ \A k \in DOMAIN hlTimers : hlTimers[k].rem > 0
    /\ event' = NoEvent
    /\ hlTimers' = [k \in DOMAIN hlTimers |-> [hlTimers[k] EXCEPT !.rem = @ - 1]]
    /\ UNCHANGED <<uiFrame, dom, modals, focusTimers, focused, notes, writes, clipboard,
                   style, scrollTarget, shown, settled, misses, uncaught, jumps>>

NextUI ==
    \/ TriggerClick
    \/ \E i \in DOMAIN modals : CloseClick(i)
    \/ \E i \in DOMAIN modals : BackdropClick(i)
    \/ \E i \in DOMAIN modals : CardClick(i)
    \/ \E i \in DOMAIN modals, value \in Terms : SearchInput(i, value)
    \/ \E i \in DOMAIN modals : \E e \in modals[i].targets : ItemClick(i, e)
    \/ \E w \in DOMAIN writes, ok \in BOOLEAN : WriteSettles(w, ok)
    \/ NotificationExpires
    \/ FocusTimerFires
    \/ \E k \in DOMAIN hlTimers : HlTimerFires(k)
    \/ Tick

SpecUI == InitUI /\ [][NextUI]_vars

-----------------------------------------------------------------------------
(* The Navigator UI on conversations whose messages differ and hold markup *)

\* conversations with different messages, with a message that holds a start
\* tag or an end tag, and one that is ready but lists no message
ListThreads(platform) ==
    IF platform = CHATGPT
    THEN { <<ChatUser(<<"a", "<div>">>), ChatUser(<<"b">>)>>,
           <<ChatUser(<<"a", "</div>">>), ChatUser(<<"b">>)>> }
    ELSE { <<GeminiUser(<<"A">>), GeminiUser(<<"b">>), GeminiResponse>>,
           <<GeminiUser(<<" ">>)>> }

InitList ==
    /\ pc = "run"
    /\ host \in UIHosts
    /\ href = "u1"
    /\ lastUrl = "u1"
    /\ retryCount = 0
    /\ dclPending = FALSE
    /\ initTimers = <<>>
    /\ triggers = 1
    /\ failedChecks = 0
    /\ scheduled = 0
    /\ lastExit = "created"
    /\ observed = 0
    /\ navCount = 0
    /\ dom \in {StampForest(t, 0) : t \in ListThreads(getCurrentPlatform(host))}
    /\ listResult = NoList
    /\ respResult = NoCall
    /\ platformResult = NoPlatformCall
    /\ style = [id \in Ids(dom) |-> DefaultStyle]
    /\ modals = <<>>
    /\ focusTimers = 0
    /\ focused = FALSE
    /\ notes = <<>>
    /\ writes = <<>>
    /\ clipboard = <<>>
    /\ hlTimers = <<>>
    /\ scrollTarget = 0
    /\ event = NoEvent
    /\ shown = [msg \in Messages |-> 0]
    /\ settled = [ok |-> 0, failed |-> 0]
    /\ misses = 0
    /\ uncaught = 0
    /\ jumps = 0

SpecList == InitList /\ [][NextUI]_vars

-----------------------------------------------------------------------------
(* Properties of the Readiness Poller *)

\* C1: in every reachable state the document holds at most one trigger control,
\* whatever the interleaving of the bootstrap call, retry timers, restart timers,
\* readiness changes and address changes.
C1_AtMostOneTrigger == triggers <= 1

\* C1 witness: an attempt ran while the trigger existed and returned at the guard,
\* after the watcher had restarted the Poller.
C1_Witness == triggers = 1 /\ lastExit = "exists" /\ observed >= 1

\* the Poller is idle: nothing is left that would call initExtension
Stopped == pc = "run" /\ ~dclPending /\ initTimers = <<>>

\* a step in which initExtension performed a readiness check
CheckPerformed == failedChecks' = failedChecks + 1 \/ triggers' = triggers + 1

\* C2: counted from page load or from the last observed address change, the k-th
\* failed readiness check schedules a retry exactly when k <= retryLimit, so
\* nothing is scheduled after retryLimit failed checks; a stopped Poller performs
\* no readiness check, and it gets a timer again only in a step of the watcher
\* that observes a changed address and resets the counter to 0.
C2_StopsAfterRetryLimit ==
    [][ /\ (failedChecks' = failedChecks + 1)
            => ((scheduled' = scheduled + 1) <=> (failedChecks < retryLimit))
        /\ (scheduled' = scheduled + 1) => (failedChecks' = failedChecks + 1)
        /\ Stopped => ~CheckPerformed
        /\ (Stopped /\ initTimers' # <<>>)
            => (href # lastUrl /\ observed' = observed + 1 /\ retryCount' = 0)
      ]_vars

\* C2 witness: after an observed address change the Poller used up its retries
\* (retryLimit scheduled, one more failed check that scheduled nothing) and stopped.
C2_Witness ==
    /\ Stopped
    /\ observed >= 1
    /\ scheduled = retryLimit
    /\ failedChecks = retryLimit + 1
    /\ triggers = 0

\* C3 as stated: at most one timer whose callback is initExtension is pending.
C3_AtMostOneInitTimer == Len(initTimers) <= 1

\* C3 amended: pending initExtension timers can pile up, one retry chain from the
\* bootstrap plus one per address change the watcher observed, and never more.
C3_TimersBoundedByRestarts == Len(initTimers) <= 1 + observed

\* C3 witness: a retry timer and a restart timer are pending together.
C3_Witness ==
    /\ Len(initTimers) = 2
    /\ observed = 1
    /\ initTimers[1].src = "retry"
    /\ initTimers[2].src = "restart"

-----------------------------------------------------------------------------
(* Properties of the Message Locator *)

\* the response predicate of a platform: a tag name, class or attribute match
ResponsePredicate(platform, n) ==
    IF platform = GEMINI
    THEN n.tag = "MODEL-RESPONSE" \/ n.cls = "model-response" \/ n.testid = "model-response"
    ELSE IF platform = CHATGPT
    THEN n.role = "assistant" \/ \E k \in Ids(n.kids) : NodeById(n.kids, k).role = "assistant"
    ELSE FALSE

\* the hops (1 = the next sibling) at which a following sibling of m is a response
ResponseHops(platform, m) ==
    LET after == FollowingSiblings(dom, m)
    IN  {h \in DOMAIN after : ResponsePredicate(platform, after[h])}

\* the platform fallback: on ChatGPT the next sibling of the conversation-turn
\* container around m, when both exist; 0 stands for none
FallbackFor(platform, m) ==
    LET turns == {a \in Ids(dom) :
                     /\ \E i \in DOMAIN AncestorsOrSelf(dom, m) :
                            AncestorsOrSelf(dom, m)[i].id = a
                     /\ NodeById(dom, a).testid = "conversation-turn"}
        \* the innermost container: the one no other container around m lies inside
        inner == CHOOSE a \in turns : \A b \in turns : Contains(<<NodeById(dom, b)>>, a)
    IN  IF platform = CHATGPT /\ turns # {} /\ FollowingSiblings(dom, inner) # <<>>
        THEN FollowingSiblings(dom, inner)[1].id
        ELSE 0

C6_WitnessAtLimit ==
    /\ respResult # NoCall
    /\ ResponseHops(getCurrentPlatform(host), respResult.msg) = {LookAhead}
    /\ respResult.out = FollowingSiblings(dom, respResult.msg)[LookAhead].id

\* and the fallback is returned for a message nested in a turn container
C6_WitnessFallback ==
    /\ respResult # NoCall
    /\ ResponseHops(getCurrentPlatform(host), respResult.msg) = {}
    /\ respResult.out # 0
    /\ respResult.out = FallbackFor(getCurrentPlatform(host), respResult.msg)

\* a text that is empty or all white space
IsBlank(t) == \A i \in DOMAIN t : t[i] = " "

\* the position of a node in document order
DocPos(forest, id) ==
    LET flat == Flatten(forest) IN CHOOSE i \in DOMAIN flat : flat[i].id = id

\* the user-message markers of a platform
UserMarker(platform, n) ==
    IF platform = GEMINI
    THEN n.tag = "USER-QUERY" \/ n.testid = "user-query" \/ n.cls = "user-query"
    ELSE IF platform = CHATGPT
    THEN n.role = "user"
    ELSE FALSE

\* C5: on every supported platform and for every DOM, findUserMessages returns
\* nodes of the document that carry the platform's user-message marker, in
\* document order, and none of them has an empty or all-white-space text.
C5_ListUserMessages ==
    listResult.called =>
        LET out == listResult.out
        IN  /\ \A i \in DOMAIN out :
                /\ Contains(dom, out[i].id)
                /\ UserMarker(getCurrentPlatform(host), out[i])
                /\ ~IsBlank(out[i].text)
            /\ \A i, j \in DOMAIN out :
                i < j => DocPos(dom, out[i].id) < DocPos(dom, out[j].id)

\* the same statement on Gemini pages only
GeminiListUserMessages == getCurrentPlatform(host) = GEMINI => C5_ListUserMessages

\* the nodes the primary Gemini selector matches (the custom element), and the
\* nodes the secondary selector list matches, in document order
PrimaryNodes == SelectSeq(Flatten(dom), LAMBDA n : n.tag = "USER-QUERY")

SecondaryNodes ==
    SelectSeq(Flatten(dom), LAMBDA n : n.testid = "user-query" \/ n.cls = "user-query")

NonBlank(nodes) == SelectSeq(nodes, LAMBDA n : ~IsBlank(n.text))

\* C19: on Gemini, whenever the primary selector matches at least one node the
\* list returned is exactly the primary-matched nodes with non-blank text, also
\* when all of them are blank and the secondary selector would match non-blank
\* nodes; the secondary selector is used only when the primary matches no node.
C19_SecondaryOnlyWithoutPrimary ==
    (listResult.called /\ getCurrentPlatform(host) = GEMINI) =>
        listResult.out = IF PrimaryNodes # <<>>
                         THEN NonBlank(PrimaryNodes)
                         ELSE NonBlank(SecondaryNodes)

\* C19 witness: the only primary match is blank, the secondary selector matches
\* a node with text, and the list returned is empty
C19_Witness ==
    /\ listResult.called
    /\ getCurrentPlatform(host) = GEMINI
    /\ PrimaryNodes # <<>>
    /\ NonBlank(PrimaryNodes) = <<>>
    /\ NonBlank(SecondaryNodes) # <<>>
    /\ listResult.out = <<>>

\* the fallback is reached as well: no primary match, the secondary matches are
\* returned
C19_WitnessFallback ==
    /\ listResult.called
    /\ getCurrentPlatform(host) = GEMINI
    /\ PrimaryNodes = <<>>
    /\ listResult.out # <<>>
    /\ listResult.out = NonBlank(SecondaryNodes)

-----------------------------------------------------------------------------
(* Properties of the Navigator UI *)

\* C4 (as claimed): once every highlight timer has fired, the background
\* colour and the transition of every element are the ones it had before its
\* first highlight, also when an element is highlighted again before an
\* earlier highlight has finished reverting.
C4_StylesRestored ==
    hlTimers = <<>> => \A id \in DOMAIN style : style[id] = DefaultStyle

\* the same statement for behaviours with a single jump action
C4_SingleJumpRestored ==
    (hlTimers = <<>> /\ jumps <= 1) => \A id \in DOMAIN style : style[id] = DefaultStyle

\* a state of the kind C4 speaks of: two jumps were made and all timers fired
C4_TwoJumpsReverted == jumps = 2 /\ hlTimers = <<>>

\* C7: a copy action on a row whose message has no locatable response shows
\* the not-found notification, issues no clipboard write and leaves the modal
\* open.
C7_CopyWithoutResponse ==
    [][(event'.kind = "copy" /\ findAIResponse(event'.msg, Platform, dom) = Null)
           => /\ notes' = Append(notes, NotFoundMessage)
              /\ writes' = writes
              /\ clipboard' = clipboard
              /\ modals # <<>>
              /\ modals' = modals]_vars

C7_Witness ==
    /\ event.kind = "copy"
    /\ findAIResponse(event.msg, Platform, dom) = Null
    /\ notes = <<NotFoundMessage>>
    /\ modals # <<>>

\* C8: every clipboard write that has settled produced exactly one
\* notification, the success notification when it succeeded and the failure
\* notification when it failed, a pending write has produced none, and no
\* failure was left uncaught.
C8_OneNotificationPerWrite ==
    /\ shown[CopiedMessage] = settled.ok
    /\ shown[FailedMessage] = settled.failed
    /\ uncaught = 0

\* a write failed after the modal it was issued from was closed by a jump
C8_Witness ==
    /\ settled.failed = 1
    /\ FailedMessage \in {notes[k] : k \in DOMAIN notes}
    /\ jumps = 1
    /\ modals = <<>>

\* C9: a modal appears only through a trigger click; a close-button click, a
\* backdrop click, a row-body click and a jump click remove the modal they
\* hit; a copy click, a search input and a click inside the card that hits no
\* row leave every modal in the document.
C9_TwoStateControl ==
    [][/\ Len(modals') > Len(modals) \/ (modals = <<>> /\ modals' # <<>>)
           => event'.kind = "trigger"
       /\ event'.kind \in {"close", "backdrop", "body", "goto"}
           => Len(modals) > 0 /\ Len(modals') = Len(modals) - 1
       /\ event'.kind \in {"copy", "card"} => modals' = modals
       /\ event'.kind = "search" => Len(modals') = Len(modals)]_vars

C9_Witness == event.kind = "backdrop" /\ event.open = 1 /\ modals = <<>>

\* C10: the document holds at most one modal.
C10_AtMostOneModal == Len(modals) <= 1

\* a trigger click that arrived while a modal was open
C10_Witness == event.kind = "trigger" /\ event.open = 1 /\ Len(modals) = 1

-----------------------------------------------------------------------------
(* Further properties of the Readiness Poller *)

\* C11: the retry counter stays within 0..retryLimit in every reachable state,
\* also while several initExtension timers increment it, and it is 0 right
\* after every step in which the watcher observes an address change.
C11_RetryCountBounded ==
    /\ [](retryCount \in 0..retryLimit)
    /\ [][observed' = observed + 1 => retryCount' = 0]_vars

\* C11 witness: the counter is at its ceiling while two timers share it
C11_Witness == retryCount = retryLimit /\ Len(initTimers) >= 2 /\ observed >= 1

\* a step in which initExtension runs: called by the bootstrap, by the
\* DOMContentLoaded listener or by a timer
InitAttempt == Bootstrap(FALSE) \/ DOMContentLoaded \/ InitTimerFires

\* C12: an initialization attempt on a page whose platform is Unknown creates
\* no trigger, performs no readiness check, schedules no timer and leaves the
\* retry counter as it was.
C12_UnsupportedIsNoOp ==
    [][(InitAttempt /\ getCurrentPlatform(host) = UNKNOWN)
           => /\ triggers' = triggers
              /\ ~CheckPerformed
              /\ scheduled' = scheduled
              /\ Len(initTimers') <= Len(initTimers)
              /\ \A i \in DOMAIN initTimers' : initTimers'[i].src # "retry"
              /\ retryCount' = retryCount]_vars

\* C12 witness: a restart timer ran an attempt on an unsupported page
C12_Witness ==
    /\ getCurrentPlatform(host) = UNKNOWN
    /\ lastExit = "unsupported"
    /\ observed >= 1
    /\ initTimers = <<>>

\* the readiness marker of a platform on an element
ReadinessMarker(platform, n) ==
    IF platform = GEMINI THEN n.tag = "USER-QUERY" \/ n.testid = "user-query"
    ELSE IF platform = CHATGPT THEN n.role = "user"
    ELSE FALSE

\* the page is supported and shows the readiness marker of its platform
MarkerPresent ==
    LET flat == Flatten(dom)
    IN  \E i \in DOMAIN flat : ReadinessMarker(getCurrentPlatform(host), flat[i])

Supported == getCurrentPlatform(host) # UNKNOWN

\* C13: on a supported page with no trigger, an attempt that runs while the
\* readiness marker is present creates the trigger in that attempt and
\* schedules no timer; and when timers fire fairly, a pending initialization
\* timer on a supported page leads to a trigger unless the marker goes away.
C13_ReadyAttemptCreates ==
    /\ [][(InitAttempt /\ Supported /\ triggers = 0 /\ MarkerPresent)
              => /\ triggers' = 1
                 /\ scheduled' = scheduled
                 /\ Len(initTimers') <= Len(initTimers)
                 /\ retryCount' = retryCount]_vars
    /\ ((Supported /\ initTimers # <<>>) ~> (triggers > 0 \/ ~MarkerPresent))

\* C13 witness: the marker appeared while a retry timer was pending and the
\* attempt of that timer created the trigger
C13_Witness ==
    /\ lastExit = "created"
    /\ triggers = 1
    /\ scheduled >= 1
    /\ MarkerPresent
    /\ initTimers = <<>>

\* a step in which a timer fires that was pending when the watcher observed an
\* address change
StaleTimerFires ==
    /\ initTimers # <<>>
    /\ Head(initTimers).stale
    /\ InitTimerFires

\* C18: a retry timer that was pending when the watcher observed an address
\* change schedules no further retry timer when it fires.
C18_StaleTimerSchedulesNothing ==
    [][StaleTimerFires => /\ scheduled' = scheduled
                          /\ Len(initTimers') < Len(initTimers)]_vars

\* a stale retry timer fired on a page that was not ready and left a retry
\* timer of its own next to the restart timer of the new run
C18_StaleTimerRetried ==
    /\ observed >= 1
    /\ lastExit = "retry"
    /\ Len(initTimers) >= 2
    /\ initTimers[1].src = "restart"
    /\ ~initTimers[1].stale
    /\ initTimers[2].src = "retry"

\* a stale timer fired as a no-op: the trigger was there already
C18_StaleTimerNoOp ==
    /\ observed >= 1
    /\ lastExit = "exists"
    /\ Len(initTimers) = 1
    /\ initTimers[1].src = "restart"
    /\ ~initTimers[1].stale

\* C20: between two consecutive observed address changes (or from page load to
\* the first one) failed readiness checks schedule at most retryLimit retry
\* timers, however many initialization timers are pending at once; so, when
\* timers fire, pending initialization timers lead to a state with none pending
\* unless the watcher observes another address change.
C20_RetriesBoundedAndDrain ==
    /\ [](scheduled <= retryLimit)
    /\ \A k \in 0..MaxNav :
           (observed = k /\ initTimers # <<>>) ~> (initTimers = <<>> \/ observed > k)

\* C20 witness: after an observed address change two chains of timers (the
\* stale retry and the restart) shared the retryLimit retries, both gave up,
\* and no initialization timer is pending
C20_Witness ==
    /\ observed >= 1
    /\ scheduled = retryLimit
    /\ failedChecks = retryLimit + 2
    /\ lastExit = "gave up"
    /\ initTimers = <<>>

-----------------------------------------------------------------------------
(* Properties of the list and its search filter *)

\* a list item is visible: neither it nor an item around it has display "none"
Visible(modal, r) == Rendered(modal, modal.rows[r].el)

\* the term of a search matches the search key of a row
TermMatches(value, row) == IsSubstring(ToLower(value), row.key)

\* C14 (as claimed): after every input event on the search field, each list
\* item is visible exactly when the lowercased value of the field is a
\* substring of the item's search key.
C14_SearchFilter ==
    [][event'.kind = "search"
           => \A i \in DOMAIN modals' : \A r \in DOMAIN modals'[i].rows :
                  Visible(modals'[i], r) <=> TermMatches(event'.value, modals'[i].rows[r])]_vars

\* what the listener does establish: after every input event the style.display
\* of each item is "grid" when the term matches its key and "none" otherwise
C14_DisplayFollowsKey ==
    [][event'.kind = "search"
           => \A i \in DOMAIN modals' : \A r \in DOMAIN modals'[i].rows :
                  modals'[i].rows[r].display =
                      IF TermMatches(event'.value, modals'[i].rows[r]) THEN "grid" ELSE "none"]_vars

\* a matching item that is not visible: it lies inside an item that was hidden
C14_MatchingItemHidden ==
    /\ event.kind = "search"
    /\ \E i \in DOMAIN modals : \E r \in DOMAIN modals[i].rows :
           TermMatches(event.value, modals[i].rows[r]) /\ ~Visible(modals[i], r)

-----------------------------------------------------------------------------
(* Properties of the jump action *)

\* the target of a jump on a message: its response when findAIResponse finds
\* one, the message itself otherwise
JumpTarget(msg) ==
    LET aiResponse == findAIResponse(msg, Platform, dom)
    IN  IF aiResponse # Null THEN aiResponse.id ELSE msg

\* C15: a jump on an item scrolls to and highlights the response of the item's
\* message when one is found and the message itself otherwise; exactly one
\* element is scrolled to and highlighted, no notification is shown and the
\* modal is closed.
C15_JumpTarget ==
    [][event'.kind = "goto"
           => LET target == JumpTarget(event'.msg)
              IN  /\ scrollTarget' = target
                  /\ style'[target] = [bg |-> highlightColor(Platform),
                                        tr |-> HighlightTransition]
                  /\ \A id \in DOMAIN style : id # target => style'[id] = style[id]
                  /\ Len(hlTimers') = Len(hlTimers) + 1
                  /\ hlTimers'[Len(hlTimers')].el = target
                  /\ notes' = notes
                  /\ shown' = shown
                  /\ modals # <<>>
                  /\ Len(modals') = Len(modals) - 1]_vars

\* C15 witness: a jump on a message without a response went to the message
C15_Witness ==
    /\ event.kind = "goto"
    /\ findAIResponse(event.msg, Platform, dom) = Null
    /\ scrollTarget = event.msg
    /\ style[event.msg].bg = highlightColor(Platform)
    /\ modals = <<>>

\* a jump on a message with a response went to the response
C15_WitnessResponse ==
    /\ event.kind = "goto"
    /\ findAIResponse(event.msg, Platform, dom) # Null
    /\ scrollTarget = findAIResponse(event.msg, Platform, dom).id
    /\ scrollTarget # event.msg
    /\ modals = <<>>

-----------------------------------------------------------------------------
(* Properties of the rendered list *)

\* the elements of a class in a modal, in document order
ByClass(els, name) ==
    SelectSeq([p \in DOMAIN els |-> p], LAMBDA p : els[p].name = name)

\* a click on element e of the modal is taken as a click of that kind on the
\* row at position r
ActsOnRow(modal, e, part, r) ==
    /\ ClickOn(modal.els[e]).listened
    /\ ClickOn(modal.els[e]).part = part
    /\ ClickOn(modal.els[e]).item = modal.rows[r].el

\* the list of a modal as C16 describes it: one row per message of the list
\* obtained at the opening, in order, with indices 0..n-1; a click on a row,
\* on its copy button or on its jump button is an action of that kind on that
\* row; and the empty-state message instead of rows when there is no message
ListAsDescribed(modal) ==
    LET n == Len(modal.msgs)
        copyBtns == ByClass(modal.els, "copy-btn")
        gotoBtns == ByClass(modal.els, "goto-btn")
    IN  /\ Len(modal.rows) = n
        /\ \A r \in DOMAIN modal.rows : modal.rows[r].index = r - 1
        /\ Len(copyBtns) = n
        /\ Len(gotoBtns) = n
        /\ \A r \in DOMAIN modal.rows :
               /\ ActsOnRow(modal, modal.rows[r].el, "body", r)
               /\ ActsOnRow(modal, copyBtns[r], "copy", r)
               /\ ActsOnRow(modal, gotoBtns[r], "goto", r)
        /\ (n = 0) <=> (ByClass(modal.els, "no-prompts") # <<>>)

\* C16 (as claimed): a modal renders one row per located user message, in
\* order and with indices 0..n-1, an action on the row with index i acts on
\* the i-th message of the list obtained at the opening, and with no message
\* the empty-state message is rendered instead of rows.
C16_RowsMatchMessages ==
    /\ \A i \in DOMAIN modals : ListAsDescribed(modals[i])
    /\ event.kind = "trigger" =>
           LET userMessages == findUserMessages(Platform, dom)
           IN  modals[Len(modals)].msgs = [k \in DOMAIN userMessages |-> userMessages[k].id]

\* a state that refutes C16: the copy button of a row is rendered outside
\* the row and a later row outside #prompts-container
C16_RowOutOfReach ==
    \E i \in DOMAIN modals :
        LET modal == modals[i]
            copyBtns == ByClass(modal.els, "copy-btn")
        IN  /\ Len(modal.rows) = 2
            /\ modal.els[copyBtns[1]].item = 0
            /\ ~modal.els[modal.rows[2].el].listened

\* a modal with two rows that is as described
C16_ListRendered ==
    \E i \in DOMAIN modals : ListAsDescribed(modals[i]) /\ Len(modals[i].rows) = 2

-----------------------------------------------------------------------------
(* Properties of getCurrentPlatform *)

HasChatGPTMarker(h) == \E i \in DOMAIN h : h[i] \in {"chatgpt.com", "openai.com"}

HasGeminiMarker(h) == \E i \in DOMAIN h : h[i] = "gemini.google.com"

\* C17: for every hostname getCurrentPlatform returns one of the three tags:
\* ChatGPT when the hostname holds a ChatGPT marker, Gemini when it holds the
\* Gemini marker and no ChatGPT marker, Unknown otherwise; the value depends
\* on the hostname only, and the call changes nothing else.
C17_ResolvePlatform ==
    /\ [](platformResult.called =>
             /\ platformResult.out \in {CHATGPT, GEMINI, UNKNOWN}
             /\ (platformResult.out = CHATGPT) <=> HasChatGPTMarker(host)
             /\ (platformResult.out = GEMINI)
                    <=> (HasGeminiMarker(host) /\ ~HasChatGPTMarker(host))
             /\ (platformResult.out = UNKNOWN)
                    <=> (~HasGeminiMarker(host) /\ ~HasChatGPTMarker(host)))
    /\ [][platformResult'.called
             => UNCHANGED <<pollerVars, dom, listResult, respResult, uiVars>>]_vars

\* C17 witness: a hostname with both markers resolved to ChatGPT
C17_Witness ==
    /\ platformResult.called
    /\ HasChatGPTMarker(host)
    /\ HasGeminiMarker(host)
    /\ platformResult.out = CHATGPT

====
